---- MODULE Spec2Model ----
(***************************************************************************)
(* Model of package prosody (internal/integration/prosody/prosody.go):     *)
(* the option combinators that configure a Prosody test fixture, the       *)
(* default-assembly option that Test appends, and the part of the fixture  *)
(* builder (package integration) the options act on.                       *)
(*                                                                         *)
(* A Go string is modelled as a sequence of tokens, so that concatenation  *)
(* ("me@"+host, "mod_"+modName+".lua", filepath.Join) is \o and parsing an *)
(* address is a search for the "@" token.  A Go slice is a header          *)
(* [arr, len, cap] into a heap of backing arrays, with append writing in   *)
(* place when the capacity allows it, as the Go runtime does.              *)
(***************************************************************************)
EXTENDS Integers, Sequences, FiniteSets, TLC

VARIABLES
    cmd,      \* fixture -> the *integration.Cmd the options mutate
    heap,     \* backing arrays of all []string slices (shared address space)
    pc,       \* fixture -> "init", "opts", "optsdone", "ready", "started", "failed"
    via,      \* fixture -> "none", "New" or "Test": how the fixture was created
    hist,     \* fixture -> log of the options applied so far (history variable)
    files,    \* fixture -> files written into the config directory, in write order
    ctlRuns   \* fixture -> prosodyctl invocations run so far

vars == <<cmd, heap, pc, via, hist, files, ctlRuns>>

----------------------------------------------------------------------------
(* Bounds and input sets *)

\* Number of caller-supplied options per fixture.
MaxOpts == 3

Fixtures == {"fx1", "fx2"}

\* Go strings as token sequences.
Str(t) == <<t>>
EmptyStr == <<>>

localhost == Str("localhost")
examplenet == Str("example.net")

\* Argument lists a caller passes to VHost: empty, single, duplicate, mixed.
HostLists ==
    { <<>>, <<localhost>>, <<examplenet>>, <<examplenet, examplenet>>,
      <<examplenet, localhost>>, <<EmptyStr>> }

\* Argument lists a caller passes to Modules.
ModLists == { <<>>, <<Str("mam")>>, <<Str("mam"), Str("mam")>> }

\* (address, password) pairs a caller passes to CreateUser; the last address
\* has no "@".
UserInputs ==
    { <<<<"bob", "@", "example.net">>, Str("secret")>>,
      <<<<"me", "@", "localhost">>, Str("password")>>,
      <<<<"localhost">>, Str("password")>> }

\* Argument vectors a caller passes to Ctl.
CtlInputs == { <<Str("status")>> }

\* Port numbers the operating system hands out for "[::1]:0".
Ports == {49152, 49153}

----------------------------------------------------------------------------
(* Constants of prosody.go *)

cfgFileName == Str("prosody.cfg.lua")
cmdName == Str("prosody")
configFlag == Str("--config")
modName == Str("trustall")
vhost == localhost
prosodyctl == Str("prosodyctl")
register == Str("register")

\* The static content TrustAll writes (the Lua source of lines 189-198).
trustAllScript == Str("module:set_global(); module:hook(s2s-check-certificate, ...)")

NoErr == "nil"

----------------------------------------------------------------------------
(* Go slices of strings *)

NilSlice == [arr |-> 0, len |-> 0, cap |-> 0]

\* The elements s[0:len(s)] as read through the heap h.
Elems(h, s) == IF s.len = 0 THEN <<>> ELSE SubSeq(h[s.arr], 1, s.len)

Zeros(n) == [i \in 1..n |-> EmptyStr]

\* The capacity the runtime picks when append has to reallocate (small sizes).
growslice(oldcap, needed) == IF needed > 2 * oldcap THEN needed ELSE 2 * oldcap

\* append(s, xs...): in place when the capacity allows, else into a new array.
GoAppend(h, s, xs) ==
    LET n == s.len + Len(xs) IN
    IF Len(xs) = 0 THEN [heap |-> h, slice |-> s]
    ELSE IF n <= s.cap
    THEN [heap  |-> [h EXCEPT ![s.arr] =
                        SubSeq(@, 1, s.len) \o xs \o SubSeq(@, n + 1, s.cap)],
          slice |-> [s EXCEPT !.len = n]]
    ELSE LET newcap == growslice(s.cap, n) IN
         [heap  |-> Append(h, Elems(h, s) \o xs \o Zeros(newcap - n)),
          slice |-> [arr |-> Len(h) + 1, len |-> n, cap |-> newcap]]

\* for _, m := range xs { s = append(s, m) }
RECURSIVE AppendEach(_, _, _)
AppendEach(h, s, xs) ==
    IF xs = <<>> THEN [heap |-> h, slice |-> s]
    ELSE LET a == GoAppend(h, s, <<Head(xs)>>)
         IN AppendEach(a.heap, a.slice, Tail(xs))

----------------------------------------------------------------------------
(* The Configuration Value (type Config) and the fixture builder *)

ZeroConfig ==
    [C2SPort |-> 0, S2SPort |-> 0, VHosts |-> NilSlice, Modules |-> NilSlice]

\* cmd.Config is an interface{}: <<>> is nil, <<cfg>> holds a Config.
NilConfig == <<>>

\* Configs a caller builds for ConfigFile, and the arrays their slices point
\* to: the second one has a vhost list with spare capacity.
CallerHeap == << <<examplenet, EmptyStr>>, <<Str("mam")>> >>

CallerConfigs ==
    { ZeroConfig,
      [C2SPort |-> 0, S2SPort |-> 0,
       VHosts  |-> [arr |-> 1, len |-> 1, cap |-> 2],
       Modules |-> [arr |-> 2, len |-> 1, cap |-> 1]] }

\* jid.JID{} and a parsed address.
ZeroJID == [localpart |-> EmptyStr, domainpart |-> EmptyStr]

\* A fresh *integration.Cmd for fixture f: exec.Command(name) has Args = [name].
NewCmd(f) ==
    [Args      |-> <<cmdName>>,
     Config    |-> NilConfig,
     cfgDir    |-> <<"/tmp/prosody", f>>,
     cfgF      |-> <<>>,
     deferF    |-> <<>>,
     user      |-> ZeroJID,
     pass      |-> EmptyStr,
     certs     |-> <<>>,
     listeners |-> <<>>]

\* What an option returns: the mutated builder, the heap, and the error.
Ret(c, h, e) == [cmd |-> c, heap |-> h, err |-> e]

\* filepath.Join of two elements.
Join(a, b) ==
    IF a = EmptyStr THEN b ELSE IF b = EmptyStr THEN a ELSE a \o <<"/">> \o b

ConfigDir(c) == c.cfgDir

\* integration.Args(args...): appends to the daemon's command line.
Args(c, args) == [c EXCEPT !.Args = @ \o args]

\* integration.TempFile(name, writer): registers a deferred file write.
TempFile(c, name, writer) ==
    [c EXCEPT !.cfgF = Append(@, [name |-> name, writer |-> writer])]

\* integration.Defer(f): registers f to run once the daemon is started.
Defer(c, f) == [c EXCEPT !.deferF = Append(@, f)]

\* integration.User(j, pass): records the default identity.
User(c, j, pass) == [c EXCEPT !.user = j, !.pass = pass]

\* integration.Cert(name): asks the certificate collaborator for a
\* self-signed certificate; ok is the collaborator's answer.
Cert(c, name, ok) ==
    [cmd |-> [c EXCEPT !.certs = Append(@, name)],
     err |-> IF ok THEN NoErr ELSE "cert"]

\* cmd.C2SListen / cmd.S2SListen("tcp", "[::1]:0"): on success a listener on
\* port e.port is open.
Listen(c, class, e) ==
    IF e.bind
    THEN [cmd |-> [c EXCEPT !.listeners =
                       Append(@, [class |-> class, port |-> e.port, open |-> TRUE])],
          err |-> NoErr]
    ELSE [cmd |-> c, err |-> "bind"]

\* listener.Close() on the listener opened last; on failure it stays open.
Close(c, ok) ==
    IF ok
    THEN [cmd |-> [c EXCEPT !.listeners[Len(c.listeners)].open = FALSE],
          err |-> NoErr]
    ELSE [cmd |-> c, err |-> "close"]

\* jid.Parse(addr): local@domain with both parts present, else an error.
Parse(addr) ==
    IF /\ Len(addr) = 3
       /\ addr[2] = "@"
       /\ addr[1] # "@"
       /\ addr[3] # "@"
    THEN [jid |-> [localpart |-> <<addr[1]>>, domainpart |-> <<addr[3]>>],
          err |-> NoErr]
    ELSE [jid |-> ZeroJID, err |-> "parse"]

----------------------------------------------------------------------------
(* The options of prosody.go.  Each takes the builder c and the heap h and *)
(* returns Ret(c', h', err).                                               *)

\* The deferred writer of ConfigFile: executes cfgTmpl on the Config it
\* captured and the config directory of the builder it is run with.
cfgTmplWriter(cfg) == [kind |-> "cfgTmpl", cfg |-> cfg]

\* The deferred writer of TrustAll: a fixed string.
staticWriter == [kind |-> "static", cfg |-> ZeroConfig]

\* Mutant of Execute: the template is run on the builder's current
\* Configuration Value instead of the Config the option captured.
ExecuteLive(writer, c, h) ==
    IF writer.kind = "cfgTmpl"
    THEN LET live == IF c.Config = <<>> THEN ZeroConfig ELSE c.Config[1] IN
         [text      |-> EmptyStr,
          C2SPort   |-> live.C2SPort,
          S2SPort   |-> live.S2SPort,
          VHosts    |-> Elems(h, live.VHosts),
          Modules   |-> Elems(h, live.Modules),
          ConfigDir |-> ConfigDir(c)]
    ELSE [text      |-> trustAllScript,
          C2SPort   |-> 0,
          S2SPort   |-> 0,
          VHosts    |-> <<>>,
          Modules   |-> <<>>,
          ConfigDir |-> EmptyStr]

\* What a registered writer puts into its file when run on builder c.
Execute(writer, c, h) ==
    IF writer.kind = "cfgTmpl"
    THEN [text      |-> EmptyStr,
          C2SPort   |-> writer.cfg.C2SPort,
          S2SPort   |-> writer.cfg.S2SPort,
          VHosts    |-> Elems(h, writer.cfg.VHosts),
          Modules   |-> Elems(h, writer.cfg.Modules),
          ConfigDir |-> ConfigDir(c)]
    ELSE [text      |-> trustAllScript,
          C2SPort   |-> 0,
          S2SPort   |-> 0,
          VHosts    |-> <<>>,
          Modules   |-> <<>>,
          ConfigDir |-> EmptyStr]

\* Mutant of ConfigFile: the config flag and path are not appended to the
\* command line.
ConfigFileNoFlag(c, h, cfg) ==
    LET c1 == [c EXCEPT !.Config = <<cfg>>]
        c2 == TempFile(c1, cfgFileName, cfgTmplWriter(cfg))
    IN Ret(c2, h, NoErr)

ConfigFile(c, h, cfg) ==
    LET c1 == [c EXCEPT !.Config = <<cfg>>]
        c2 == TempFile(c1, cfgFileName, cfgTmplWriter(cfg))
        cfgFilePath == Join(ConfigDir(c2), cfgFileName)
    IN Ret(Args(c2, <<configFlag, cfgFilePath>>), h, NoErr)

\* Mutant of CtlArgv: the caller's arguments are put before the config flag.
CtlArgvArgsFirst(c, args) ==
    LET cfgFilePath == Join(ConfigDir(c), cfgFileName)
    IN <<prosodyctl>> \o args \o <<configFlag, cfgFilePath>>

\* The argument vector the deferred function of Ctl runs on builder c.
CtlArgv(c, args) ==
    LET cfgFilePath == Join(ConfigDir(c), cfgFileName)
    IN <<prosodyctl, configFlag, cfgFilePath>> \o args

Ctl(c, h, args) == Ret(Defer(c, args), h, NoErr)

getConfig(c) ==
    LET c1 == IF c.Config = NilConfig THEN [c EXCEPT !.Config = <<ZeroConfig>>] ELSE c
    IN [cmd |-> c1, cfg |-> c1.Config[1]]

\* Mutant of ListenC2S: the error of Close is dropped, so the port is stored
\* although its listener is still open.
ListenC2SIgnoreCloseErr(c, h, e) ==
    LET l == Listen(c, "c2s", e) IN
    IF l.err # NoErr THEN Ret(l.cmd, h, l.err)
    ELSE LET c2sPort == e.port
             cl == Close(l.cmd, e.close)
             g == getConfig(cl.cmd)
             cfg == [g.cfg EXCEPT !.C2SPort = c2sPort]
         IN Ret([g.cmd EXCEPT !.Config = <<cfg>>], h, NoErr)

\* Mutant of ListenC2S: the port is stored before the listener is closed, so
\* a failed Close leaves it written.
ListenC2SStoreFirst(c, h, e) ==
    LET l == Listen(c, "c2s", e) IN
    IF l.err # NoErr THEN Ret(l.cmd, h, l.err)
    ELSE LET c2sPort == e.port
             g == getConfig(l.cmd)
             cfg == [g.cfg EXCEPT !.C2SPort = c2sPort]
             cl == Close([g.cmd EXCEPT !.Config = <<cfg>>], e.close)
         IN Ret(cl.cmd, h, cl.err)

ListenC2S(c, h, e) ==
    LET l == Listen(c, "c2s", e) IN
    IF l.err # NoErr THEN Ret(l.cmd, h, l.err)
    ELSE LET c2sPort == e.port
             cl == Close(l.cmd, e.close)
         IN IF cl.err # NoErr THEN Ret(cl.cmd, h, cl.err)
            ELSE LET g == getConfig(cl.cmd)
                     cfg == [g.cfg EXCEPT !.C2SPort = c2sPort]
                 IN Ret([g.cmd EXCEPT !.Config = <<cfg>>], h, NoErr)

\* Mutant of ListenS2S: the port is stored in a fresh Config instead of the
\* fixture's current one.
ListenS2SFreshConfig(c, h, e) ==
    LET l == Listen(c, "s2s", e) IN
    IF l.err # NoErr THEN Ret(l.cmd, h, l.err)
    ELSE LET s2sPort == e.port
             cl == Close(l.cmd, e.close)
         IN IF cl.err # NoErr THEN Ret(cl.cmd, h, cl.err)
            ELSE LET cfg == [ZeroConfig EXCEPT !.S2SPort = s2sPort]
                 IN Ret([cl.cmd EXCEPT !.Config = <<cfg>>], h, NoErr)

\* Mutant of ListenS2S: the port is stored while the listener stays open.
ListenS2SNoClose(c, h, e) ==
    LET l == Listen(c, "s2s", e) IN
    IF l.err # NoErr THEN Ret(l.cmd, h, l.err)
    ELSE LET s2sPort == e.port
             g == getConfig(l.cmd)
             cfg == [g.cfg EXCEPT !.S2SPort = s2sPort]
         IN Ret([g.cmd EXCEPT !.Config = <<cfg>>], h, NoErr)

ListenS2S(c, h, e) ==
    LET l == Listen(c, "s2s", e) IN
    IF l.err # NoErr THEN Ret(l.cmd, h, l.err)
    ELSE LET s2sPort == e.port
             cl == Close(l.cmd, e.close)
         IN IF cl.err # NoErr THEN Ret(cl.cmd, h, cl.err)
            ELSE LET g == getConfig(cl.cmd)
                     cfg == [g.cfg EXCEPT !.S2SPort = s2sPort]
                 IN Ret([g.cmd EXCEPT !.Config = <<cfg>>], h, NoErr)

\* Mutant of VHost: the hosts replace the list instead of extending it.
VHostReplace(c, h, hosts) ==
    LET g == getConfig(c)
        a == GoAppend(h, NilSlice, hosts)
        cfg == [g.cfg EXCEPT !.VHosts = a.slice]
    IN Ret([g.cmd EXCEPT !.Config = <<cfg>>], a.heap, NoErr)

VHost(c, h, hosts) ==
    LET g == getConfig(c)
        a == GoAppend(h, g.cfg.VHosts, hosts)
        cfg == [g.cfg EXCEPT !.VHosts = a.slice]
    IN Ret([g.cmd EXCEPT !.Config = <<cfg>>], a.heap, NoErr)

\* Mutant of CreateUser: the admin invocation is registered before the
\* address is parsed, and with the parts in the wrong order.
CreateUserSwapped(c, h, addr, pass) ==
    LET p == Parse(addr)
        j == p.jid
        r == Ctl(c, h, <<register, j.domainpart, j.localpart, pass>>)
    IN IF p.err # NoErr THEN Ret(r.cmd, r.heap, p.err)
       ELSE Ret(User(r.cmd, j, pass), r.heap, NoErr)

CreateUser(c, h, addr, pass) ==
    LET p == Parse(addr) IN
    IF p.err # NoErr THEN Ret(c, h, p.err)
    ELSE LET j == p.jid
             r == Ctl(c, h, <<register, j.localpart, j.domainpart, pass>>)
         IN IF r.err # NoErr THEN r
            ELSE Ret(User(r.cmd, j, pass), r.heap, NoErr)

Modules(c, h, mod) ==
    LET g == getConfig(c)
        a == AppendEach(h, g.cfg.Modules, mod)
        cfg == [g.cfg EXCEPT !.Modules = a.slice]
    IN Ret([g.cmd EXCEPT !.Config = <<cfg>>], a.heap, NoErr)

\* Mutant of TrustAll: the module is enabled only if it is not enabled yet.
TrustAllDedup(c, h) ==
    LET g == getConfig(c)
        on == \E i \in 1..g.cfg.Modules.len : Elems(h, g.cfg.Modules)[i] = modName
        r == IF on THEN Ret(g.cmd, h, NoErr) ELSE Modules(c, h, <<modName>>)
    IN Ret(TempFile(r.cmd, Str("mod_") \o modName \o Str(".lua"), staticWriter),
           r.heap, NoErr)

TrustAll(c, h) ==
    LET r == Modules(c, h, <<modName>>) IN
    IF r.err # NoErr THEN r
    ELSE Ret(TempFile(r.cmd, Str("mod_") \o modName \o Str(".lua"), staticWriter),
             r.heap, NoErr)

HasConfigFlag(args) == \E i \in 1..Len(args) : args[i] = configFlag

\* Mutant of defaultConfig: the default vhost is added whether or not the
\* caller configured vhosts.
defaultConfigAlwaysVHost(c, h, certOk) ==
    IF HasConfigFlag(c.Args) THEN Ret(c, h, NoErr)
    ELSE
    LET g == getConfig(c)
        a == GoAppend(h, g.cfg.VHosts, <<vhost>>)
        cfg == [g.cfg EXCEPT !.VHosts = a.slice]
        ce == Cert(g.cmd, vhost, certOk)
    IN IF ce.err # NoErr THEN Ret(ce.cmd, a.heap, ce.err)
       ELSE
       LET c1 == [ce.cmd EXCEPT !.Config = <<cfg>>]
           u == IF c1.user = ZeroJID
                THEN CreateUser(c1, a.heap, <<"me", "@">> \o Elems(a.heap, cfg.VHosts)[1],
                                Str("password"))
                ELSE Ret(c1, a.heap, NoErr)
       IN IF u.err # NoErr THEN u
          ELSE ConfigFile(u.cmd, u.heap, cfg)

\* Mutant of defaultConfig: no default user is created.
defaultConfigNoUser(c, h, certOk) ==
    IF HasConfigFlag(c.Args) THEN Ret(c, h, NoErr)
    ELSE
    LET g == getConfig(c)
        empty == g.cfg.VHosts.len = 0
        a == IF empty THEN GoAppend(h, g.cfg.VHosts, <<vhost>>)
                      ELSE [heap |-> h, slice |-> g.cfg.VHosts]
        cfg == [g.cfg EXCEPT !.VHosts = a.slice]
        ce == IF empty THEN Cert(g.cmd, vhost, certOk)
                       ELSE [cmd |-> g.cmd, err |-> NoErr]
    IN IF ce.err # NoErr THEN Ret(ce.cmd, a.heap, ce.err)
       ELSE ConfigFile([ce.cmd EXCEPT !.Config = <<cfg>>], a.heap, cfg)

\* Mutant of defaultConfig: the command line is not searched for the config
\* flag.
defaultConfigNoFlagCheck(c, h, certOk) ==
    LET g == getConfig(c)
        empty == g.cfg.VHosts.len = 0
        a == IF empty THEN GoAppend(h, g.cfg.VHosts, <<vhost>>)
                      ELSE [heap |-> h, slice |-> g.cfg.VHosts]
        cfg == [g.cfg EXCEPT !.VHosts = a.slice]
        ce == IF empty THEN Cert(g.cmd, vhost, certOk)
                       ELSE [cmd |-> g.cmd, err |-> NoErr]
    IN IF ce.err # NoErr THEN Ret(ce.cmd, a.heap, ce.err)
       ELSE
       LET c1 == [ce.cmd EXCEPT !.Config = <<cfg>>]
           u == IF c1.user = ZeroJID
                THEN CreateUser(c1, a.heap, <<"me", "@">> \o Elems(a.heap, cfg.VHosts)[1],
                                Str("password"))
                ELSE Ret(c1, a.heap, NoErr)
       IN IF u.err # NoErr THEN u
          ELSE ConfigFile(u.cmd, u.heap, cfg)

\* Mutant of defaultConfig: the default user is created on the default
\* hostname instead of the first configured vhost.
defaultConfigUserAtDefault(c, h, certOk) ==
    IF HasConfigFlag(c.Args) THEN Ret(c, h, NoErr)
    ELSE
    LET g == getConfig(c)
        empty == g.cfg.VHosts.len = 0
        a == IF empty THEN GoAppend(h, g.cfg.VHosts, <<vhost>>)
                      ELSE [heap |-> h, slice |-> g.cfg.VHosts]
        cfg == [g.cfg EXCEPT !.VHosts = a.slice]
        ce == IF empty THEN Cert(g.cmd, vhost, certOk)
                       ELSE [cmd |-> g.cmd, err |-> NoErr]
    IN IF ce.err # NoErr THEN Ret(ce.cmd, a.heap, ce.err)
       ELSE
       LET c1 == [ce.cmd EXCEPT !.Config = <<cfg>>]
           u == IF c1.user = ZeroJID
                THEN CreateUser(c1, a.heap, <<"me", "@">> \o vhost, Str("password"))
                ELSE Ret(c1, a.heap, NoErr)
       IN IF u.err # NoErr THEN u
          ELSE ConfigFile(u.cmd, u.heap, cfg)

\* Mutant of defaultConfig: the config file is rendered from the Config as it
\* was read, before the default vhost was added.
defaultConfigStaleCfg(c, h, certOk) ==
    IF HasConfigFlag(c.Args) THEN Ret(c, h, NoErr)
    ELSE
    LET g == getConfig(c)
        empty == g.cfg.VHosts.len = 0
        a == IF empty THEN GoAppend(h, g.cfg.VHosts, <<vhost>>)
                      ELSE [heap |-> h, slice |-> g.cfg.VHosts]
        cfg == [g.cfg EXCEPT !.VHosts = a.slice]
        ce == IF empty THEN Cert(g.cmd, vhost, certOk)
                       ELSE [cmd |-> g.cmd, err |-> NoErr]
    IN IF ce.err # NoErr THEN Ret(ce.cmd, a.heap, ce.err)
       ELSE
       LET c1 == [ce.cmd EXCEPT !.Config = <<cfg>>]
           u == IF c1.user = ZeroJID
                THEN CreateUser(c1, a.heap, <<"me", "@">> \o Elems(a.heap, cfg.VHosts)[1],
                                Str("password"))
                ELSE Ret(c1, a.heap, NoErr)
       IN IF u.err # NoErr THEN u
          ELSE ConfigFile(u.cmd, u.heap, g.cfg)

\* Mutant of defaultConfig: the certificate is requested last, after the user
\* was created and the rendering registered.
defaultConfigCertLast(c, h, certOk) ==
    IF HasConfigFlag(c.Args) THEN Ret(c, h, NoErr)
    ELSE
    LET g == getConfig(c)
        empty == g.cfg.VHosts.len = 0
        a == IF empty THEN GoAppend(h, g.cfg.VHosts, <<vhost>>)
                      ELSE [heap |-> h, slice |-> g.cfg.VHosts]
        cfg == [g.cfg EXCEPT !.VHosts = a.slice]
        c1 == [g.cmd EXCEPT !.Config = <<cfg>>]
        u == IF c1.user = ZeroJID
             THEN CreateUser(c1, a.heap, <<"me", "@">> \o Elems(a.heap, cfg.VHosts)[1],
                             Str("password"))
             ELSE Ret(c1, a.heap, NoErr)
    IN IF u.err # NoErr THEN u
       ELSE LET w == ConfigFile(u.cmd, u.heap, cfg)
                ce == IF empty THEN Cert(w.cmd, vhost, certOk)
                               ELSE [cmd |-> w.cmd, err |-> NoErr]
            IN Ret(ce.cmd, w.heap, ce.err)

defaultConfig(c, h, certOk) ==
    IF HasConfigFlag(c.Args) THEN Ret(c, h, NoErr)
    ELSE
    LET g == getConfig(c)
        empty == g.cfg.VHosts.len = 0
        a == IF empty THEN GoAppend(h, g.cfg.VHosts, <<vhost>>)
                      ELSE [heap |-> h, slice |-> g.cfg.VHosts]
        cfg == [g.cfg EXCEPT !.VHosts = a.slice]
        ce == IF empty THEN Cert(g.cmd, vhost, certOk)
                       ELSE [cmd |-> g.cmd, err |-> NoErr]
    IN IF ce.err # NoErr THEN Ret(ce.cmd, a.heap, ce.err)
       ELSE
       LET c1 == [ce.cmd EXCEPT !.Config = <<cfg>>]
           u == IF c1.user = ZeroJID
                THEN CreateUser(c1, a.heap, <<"me", "@">> \o Elems(a.heap, cfg.VHosts)[1],
                                Str("password"))
                ELSE Ret(c1, a.heap, NoErr)
       IN IF u.err # NoErr THEN u
          ELSE ConfigFile(u.cmd, u.heap, cfg)

----------------------------------------------------------------------------
(* The state machine: a caller creates a fixture through New or Test, the  *)
(* builder applies the options one after the other and stops at the first  *)
(* error, then runs the registered file writes; Start starts the daemon    *)
(* and runs the deferred functions.                                        *)

\* The Configuration Value as a caller inspects it.
View(c, h) ==
    IF c.Config = NilConfig
    THEN [isNil |-> TRUE, C2SPort |-> 0, S2SPort |-> 0, VHosts |-> <<>>, Modules |-> <<>>]
    ELSE [isNil   |-> FALSE,
          C2SPort |-> c.Config[1].C2SPort,
          S2SPort |-> c.Config[1].S2SPort,
          VHosts  |-> Elems(h, c.Config[1].VHosts),
          Modules |-> Elems(h, c.Config[1].Modules)]

Init ==
    /\ cmd = [f \in Fixtures |-> NewCmd(f)]
    /\ heap = CallerHeap
    /\ pc = [f \in Fixtures |-> "init"]
    /\ via = [f \in Fixtures |-> "none"]
    /\ hist = [f \in Fixtures |-> <<>>]
    /\ files = [f \in Fixtures |-> <<>>]
    /\ ctlRuns = [f \in Fixtures |-> <<>>]

\* New(ctx, opts...): integration.New(ctx, cmdName, opts...).
New(f) ==
    /\ pc[f] = "init"
    /\ pc' = [pc EXCEPT ![f] = "opts"]
    /\ via' = [via EXCEPT ![f] = "New"]
    /\ UNCHANGED <<cmd, heap, hist, files, ctlRuns>>

\* Test(ctx, t, opts...): the same with defaultConfig appended to opts.
Test(f) ==
    /\ pc[f] = "init"
    /\ pc' = [pc EXCEPT ![f] = "opts"]
    /\ via' = [via EXCEPT ![f] = "Test"]
    /\ UNCHANGED <<cmd, heap, hist, files, ctlRuns>>

\* One iteration of the builder's loop over opts: the option returned r.
Applied(f, r, op, args, cfg, next) ==
    /\ cmd' = [cmd EXCEPT ![f] = r.cmd]
    /\ heap' = r.heap
    /\ hist' = [hist EXCEPT ![f] =
                  Append(@, [op |-> op, args |-> args, cfg |-> cfg, err |-> r.err,
                             view |-> View(r.cmd, r.heap)])]
    /\ pc' = [pc EXCEPT ![f] = IF r.err = NoErr THEN next ELSE "failed"]
    /\ UNCHANGED <<via, files, ctlRuns>>

\* The caller's list has a next option.
MoreOpts(f) == pc[f] = "opts" /\ Len(hist[f]) < MaxOpts

\* Ports no open listener holds.
OpenPorts ==
    UNION { { cmd[g].listeners[i].port :
                i \in { j \in 1..Len(cmd[g].listeners) : cmd[g].listeners[j].open } } :
            g \in Fixtures }

\* What the operating system answers to a Listen option: the bind fails, or
\* it binds a free port and the later Close succeeds or fails.
ListenEnvs ==
    { [bind |-> FALSE, port |-> 0, close |-> TRUE] }
    \cup [bind : {TRUE}, port : Ports \ OpenPorts, close : BOOLEAN]

ApplyVHost(f) ==
    /\ MoreOpts(f)
    /\ \E hosts \in HostLists :
         Applied(f, VHost(cmd[f], heap, hosts), "VHost", hosts, ZeroConfig, "opts")

ApplyModules(f) ==
    /\ MoreOpts(f)
    /\ \E mod \in ModLists :
         Applied(f, Modules(cmd[f], heap, mod), "Modules", mod, ZeroConfig, "opts")

ApplyListenC2S(f) ==
    /\ MoreOpts(f)
    /\ \E e \in ListenEnvs :
         Applied(f, ListenC2S(cmd[f], heap, e), "ListenC2S", <<>>, ZeroConfig, "opts")

ApplyListenS2S(f) ==
    /\ MoreOpts(f)
    /\ \E e \in ListenEnvs :
         Applied(f, ListenS2S(cmd[f], heap, e), "ListenS2S", <<>>, ZeroConfig, "opts")

ApplyTrustAll(f) ==
    /\ MoreOpts(f)
    /\ Applied(f, TrustAll(cmd[f], heap), "TrustAll", <<>>, ZeroConfig, "opts")

ApplyCreateUser(f) ==
    /\ MoreOpts(f)
    /\ \E u \in UserInputs :
         Applied(f, CreateUser(cmd[f], heap, u[1], u[2]), "CreateUser", u,
                 ZeroConfig, "opts")

ApplyConfigFile(f) ==
    /\ MoreOpts(f)
    /\ \E cfg \in CallerConfigs :
         Applied(f, ConfigFile(cmd[f], heap, cfg), "ConfigFile", <<>>, cfg, "opts")

ApplyCtl(f) ==
    /\ MoreOpts(f)
    /\ \E args \in CtlInputs :
         Applied(f, Ctl(cmd[f], heap, args), "Ctl", args, ZeroConfig, "opts")

\* The option Test appended: applied after the caller's last option.
ApplyDefaultConfig(f) ==
    /\ pc[f] = "opts"
    /\ via[f] = "Test"
    /\ \E certOk \in BOOLEAN :
         Applied(f, defaultConfig(cmd[f], heap, certOk), "defaultConfig", <<>>,
                 ZeroConfig, "optsdone")

\* The list New was given is exhausted.
EndOpts(f) ==
    /\ pc[f] = "opts"
    /\ via[f] = "New"
    /\ pc' = [pc EXCEPT ![f] = "optsdone"]
    /\ UNCHANGED <<cmd, heap, via, hist, files, ctlRuns>>

\* The builder runs the registered file writes, in registration order.
RunCfgF(f) ==
    /\ pc[f] = "optsdone"
    /\ files' = [files EXCEPT ![f] =
                   [i \in 1..Len(cmd[f].cfgF) |->
                      [name    |-> cmd[f].cfgF[i].name,
                       content |-> Execute(cmd[f].cfgF[i].writer, cmd[f], heap)]]]
    /\ pc' = [pc EXCEPT ![f] = "ready"]
    /\ UNCHANGED <<cmd, heap, via, hist, ctlRuns>>

\* cmd.Start(): the daemon is started and the deferred functions run in
\* order until one fails (fails = 0: none does).
Start(f) ==
    /\ pc[f] = "ready"
    /\ \E fails \in 0..Len(cmd[f].deferF) :
         /\ ctlRuns' = [ctlRuns EXCEPT ![f] =
                          [i \in 1..(IF fails = 0 THEN Len(cmd[f].deferF) ELSE fails) |->
                             [argv |-> CtlArgv(cmd[f], cmd[f].deferF[i]),
                              ok   |-> i # fails]]]
         /\ pc' = [pc EXCEPT ![f] = IF fails = 0 THEN "started" ELSE "failed"]
    /\ UNCHANGED <<cmd, heap, via, hist, files>>

Step(f) ==
    \/ New(f)
    \/ Test(f)
    \/ ApplyVHost(f)
    \/ ApplyModules(f)
    \/ ApplyListenC2S(f)
    \/ ApplyListenS2S(f)
    \/ ApplyTrustAll(f)
    \/ ApplyCreateUser(f)
    \/ ApplyConfigFile(f)
    \/ ApplyCtl(f)
    \/ ApplyDefaultConfig(f)
    \/ EndOpts(f)
    \/ RunCfgF(f)
    \/ Start(f)

\* One fixture is set up.
Next == Step("fx1")

Spec == Init /\ [][Next]_vars

----------------------------------------------------------------------------
(* Vocabulary of the properties *)

\* The option applied last to fixture f, once one was applied.
LastOpt(f) == hist[f][Len(hist[f])]

\* This step applied one option to fixture f.
OptStep(f) == Len(hist'[f]) = Len(hist[f]) + 1

\* The option this step applied.
StepOpt(f) == hist'[f][Len(hist'[f])]

\* The arguments of all calls of option op in a log, concatenated in call order.
RECURSIVE ConcatArgs(_, _)
ConcatArgs(log, op) ==
    IF log = <<>> THEN <<>>
    ELSE (IF Head(log).op = op THEN Head(log).args ELSE <<>>)
         \o ConcatArgs(Tail(log), op)

OnlyOps(f, ops) == \A i \in 1..Len(hist[f]) : hist[f][i].op \in ops

HasOp(f, op) == \E i \in 1..Len(hist[f]) : hist[f][i].op = op

IsPrefix(s, t) == Len(s) <= Len(t) /\ SubSeq(t, 1, Len(s)) = s

cfgFilePathOf(f) == cmd[f].cfgDir \o <<"/">> \o cfgFileName

\* What the template of the config file shows for a Configuration Value.
CfgContent(v, dir) ==
    [text |-> EmptyStr, C2SPort |-> v.C2SPort, S2SPort |-> v.S2SPort,
     VHosts |-> v.VHosts, Modules |-> v.Modules, ConfigDir |-> dir]

----------------------------------------------------------------------------
(* C1 *)

\* C1: on a fresh fixture to which only VHost and Modules options were
\* applied, in any interleaving and with any argument lists, the VHosts list
\* is the concatenation in call order of the arguments of the VHost calls and
\* the Modules list that of the Modules calls: nothing is dropped,
\* de-duplicated or reordered.
C1_Concatenation ==
    \A f \in Fixtures :
        OnlyOps(f, {"VHost", "Modules"}) =>
            /\ View(cmd[f], heap).VHosts = ConcatArgs(hist[f], "VHost")
            /\ View(cmd[f], heap).Modules = ConcatArgs(hist[f], "Modules")

\* Three calls, both kinds, with a duplicate and an empty argument list.
C1_Witness ==
    /\ OnlyOps("fx1", {"VHost", "Modules"})
    /\ Len(hist["fx1"]) = 3
    /\ hist["fx1"][1].op = "VHost" /\ hist["fx1"][1].args = <<examplenet, examplenet>>
    /\ hist["fx1"][2].op = "Modules" /\ hist["fx1"][2].args = <<Str("mam"), Str("mam")>>
    /\ hist["fx1"][3].op = "VHost" /\ hist["fx1"][3].args = <<examplenet, localhost>>
    /\ View(cmd["fx1"], heap).VHosts = <<examplenet, examplenet, examplenet, localhost>>

----------------------------------------------------------------------------
(* C2 *)

\* This step applied defaultConfig to f with no config flag on the command line.
DefaultStepNoFlag(f) ==
    /\ OptStep(f)
    /\ StepOpt(f).op = "defaultConfig"
    /\ ~HasConfigFlag(cmd[f].Args)

\* C2: when defaultConfig runs without the config flag set, it only fills in
\* what is still empty: a non-empty VHosts list is left as it is (and an
\* empty one only grows), C2SPort, S2SPort and Modules keep their values, and
\* an identity the caller recorded stays, with no further admin invocation
\* registered for a user.
C2_DefaultsOnlyFillEmpty ==
    [][\A f \in Fixtures :
         DefaultStepNoFlag(f) =>
            LET b == View(cmd[f], heap)
                a == View(cmd'[f], heap')
            IN /\ IsPrefix(b.VHosts, a.VHosts)
               /\ b.VHosts # <<>> => a.VHosts = b.VHosts
               /\ b.VHosts # <<>> => cmd'[f].certs = cmd[f].certs
               /\ a.C2SPort = b.C2SPort
               /\ a.S2SPort = b.S2SPort
               /\ a.Modules = b.Modules
               /\ cmd[f].user # ZeroJID =>
                     /\ cmd'[f].user = cmd[f].user
                     /\ cmd'[f].pass = cmd[f].pass
                     /\ cmd'[f].deferF = cmd[f].deferF
      ]_vars

\* defaultConfig ran to the end after the caller set a vhost, a port and a user.
C2_Witness ==
    /\ Len(hist["fx1"]) = 4
    /\ hist["fx1"][1].op = "VHost" /\ hist["fx1"][1].args = <<examplenet, localhost>>
    /\ hist["fx1"][2].op = "ListenC2S" /\ hist["fx1"][2].err = NoErr
    /\ hist["fx1"][3].op = "CreateUser" /\ hist["fx1"][3].err = NoErr
    /\ hist["fx1"][3].args[1] = <<"bob", "@", "example.net">>
    /\ LastOpt("fx1").op = "defaultConfig" /\ LastOpt("fx1").err = NoErr
    /\ View(cmd["fx1"], heap).VHosts = <<examplenet, localhost>>
    /\ View(cmd["fx1"], heap).C2SPort \in Ports
    /\ cmd["fx1"].user = [localpart |-> Str("bob"), domainpart |-> examplenet]
    /\ HasConfigFlag(cmd["fx1"].Args)

----------------------------------------------------------------------------
(* C3 *)

\* defaultConfig was the only option applied to f, and it succeeded.
OnlyDefault(f) ==
    /\ Len(hist[f]) = 1
    /\ hist[f][1].op = "defaultConfig"
    /\ hist[f][1].err = NoErr

\* C3: defaultConfig on a fixture with no caller options adds exactly the
\* vhost "localhost", requests a certificate for "localhost", creates the user
\* me@localhost with password "password" (identity recorded, and the admin
\* invocation "register me localhost password" registered), registers one
\* rendering of the config file whose template context has VHosts =
\* <<"localhost">> and nothing else set, and appends the config flag with the
\* path of that file; the file written is that rendering.
C3_DefaultsOnEmptyFixture ==
    \A f \in Fixtures :
        OnlyDefault(f) =>
            LET c == cmd[f]
                content == CfgContent([C2SPort |-> 0, S2SPort |-> 0,
                                       VHosts |-> <<localhost>>, Modules |-> <<>>],
                                      c.cfgDir)
            IN /\ View(c, heap).VHosts = <<Str("localhost")>>
               /\ c.certs = <<Str("localhost")>>
               /\ c.user = [localpart |-> Str("me"), domainpart |-> Str("localhost")]
               /\ c.pass = Str("password")
               /\ c.deferF = << <<Str("register"), Str("me"), Str("localhost"),
                                  Str("password")>> >>
               /\ Len(c.cfgF) = 1
               /\ c.cfgF[1].name = Str("prosody.cfg.lua")
               /\ Execute(c.cfgF[1].writer, c, heap) = content
               /\ c.Args = <<Str("prosody"), Str("--config"),
                             c.cfgDir \o <<"/">> \o Str("prosody.cfg.lua")>>
               /\ pc[f] \in {"ready", "started"} =>
                     files[f] = <<[name |-> Str("prosody.cfg.lua"), content |-> content]>>

\* The fixture was created with no options, assembled, rendered and started.
C3_Witness ==
    /\ OnlyDefault("fx1")
    /\ pc["fx1"] = "started"
    /\ Len(files["fx1"]) = 1
    /\ Len(ctlRuns["fx1"]) = 1

----------------------------------------------------------------------------
(* C4 *)

\* The index of the last call of option op in the log of f (0: none).
LastIdx(f, op) ==
    LET I == { i \in 1..Len(hist[f]) : hist[f][i].op = op }
    IN IF I = {} THEN 0 ELSE CHOOSE i \in I : \A j \in I : j <= i

\* The last write of the file called name among the writes ws (0: none).
LastWrite(ws, name) ==
    LET I == { i \in 1..Len(ws) : ws[i].name = name }
    IN IF I = {} THEN 0 ELSE CHOOSE i \in I : \A j \in I : j <= i

\* This step applied defaultConfig to f after the caller applied ConfigFile.
DefaultStepAfterConfigFile(f) ==
    /\ OptStep(f)
    /\ StepOpt(f).op = "defaultConfig"
    /\ HasOp(f, "ConfigFile")

\* The config file of f, once written, shows the Configuration Value as it
\* was when the caller's last ConfigFile option had been applied.
RenderedIsValueAtConfigFile(f) ==
    (HasOp(f, "ConfigFile") /\ LastWrite(files[f], cfgFileName) # 0) =>
        files[f][LastWrite(files[f], cfgFileName)].content
            = CfgContent(hist[f][LastIdx(f, "ConfigFile")].view, cmd[f].cfgDir)

\* C4: if the caller applied ConfigFile anywhere in the option sequence,
\* defaultConfig finds the config flag, returns nil and changes nothing: no
\* vhost, no certificate request, no user, no file write, no argument; and
\* the config file that gets written shows the Configuration Value at the
\* moment ConfigFile was applied.
C4_ExplicitConfigDisablesDefaults ==
    /\ [][\A f \in Fixtures :
            DefaultStepAfterConfigFile(f) =>
                /\ HasConfigFlag(cmd[f].Args)
                /\ StepOpt(f).err = NoErr
                /\ cmd'[f] = cmd[f]
                /\ heap' = heap
         ]_vars
    /\ [](\A f \in Fixtures : RenderedIsValueAtConfigFile(f))

\* ConfigFile between two VHost calls, then defaultConfig, then the rendering.
C4_Witness ==
    /\ Len(hist["fx1"]) = 4
    /\ hist["fx1"][1].op = "VHost" /\ hist["fx1"][1].args = <<localhost>>
    /\ hist["fx1"][2].op = "ConfigFile" /\ hist["fx1"][2].cfg # ZeroConfig
    /\ hist["fx1"][3].op = "VHost" /\ hist["fx1"][3].args = <<localhost>>
    /\ hist["fx1"][4].op = "defaultConfig"
    /\ pc["fx1"] = "ready"
    /\ files["fx1"][1].content.VHosts = <<examplenet>>
    /\ cmd["fx1"].user = ZeroJID
    /\ cmd["fx1"].certs = <<>>

----------------------------------------------------------------------------
(* C5 *)

\* What running the registered writes now would leave in the config file.
WillRender(c, h) ==
    Execute(c.cfgF[LastWrite(c.cfgF, cfgFileName)].writer, c, h)

StructuredOps == {"VHost", "Modules", "ListenC2S", "ListenS2S", "TrustAll"}

\* This step applied a structured option to f after ConfigFile was applied.
StructuredStepAfterConfigFile(f) ==
    /\ OptStep(f)
    /\ StepOpt(f).op \in StructuredOps
    /\ LastWrite(cmd[f].cfgF, cfgFileName) # 0

\* The change option o makes to the Configuration Value b, seen in a.
ChangeVisible(o, b, a, c) ==
    /\ o.op = "VHost" => a.VHosts = b.VHosts \o o.args
    /\ o.op = "Modules" => a.Modules = b.Modules \o o.args
    /\ o.op = "TrustAll" => a.Modules = b.Modules \o <<Str("trustall")>>
    /\ (o.op = "ListenC2S" /\ o.err = NoErr) =>
          a.C2SPort = c.listeners[Len(c.listeners)].port
    /\ (o.op = "ListenS2S" /\ o.err = NoErr) =>
          a.S2SPort = c.listeners[Len(c.listeners)].port

\* C5: once ConfigFile was applied, a VHost, Modules, ListenC2S, ListenS2S or
\* TrustAll option applied after it leaves the content that will be rendered
\* into the config file unchanged, while its change shows in the fixture's
\* Configuration Value.
C5_StructuredOptionsDoNotRender ==
    [][\A f \in Fixtures :
         StructuredStepAfterConfigFile(f) =>
            /\ WillRender(cmd'[f], heap') = WillRender(cmd[f], heap)
            /\ ChangeVisible(StepOpt(f), View(cmd[f], heap), View(cmd'[f], heap'),
                             cmd'[f])
      ]_vars

\* VHost appended in place into the array the rendered Config points to.
C5_Witness ==
    /\ Len(hist["fx1"]) = 3
    /\ hist["fx1"][1].op = "ConfigFile" /\ hist["fx1"][1].cfg # ZeroConfig
    /\ hist["fx1"][2].op = "VHost" /\ hist["fx1"][2].args = <<localhost>>
    /\ hist["fx1"][3].op = "ListenC2S" /\ hist["fx1"][3].err = NoErr
    /\ heap[1] = <<examplenet, localhost>>
    /\ View(cmd["fx1"], heap).VHosts = <<examplenet, localhost>>
    /\ View(cmd["fx1"], heap).C2SPort \in Ports
    /\ WillRender(cmd["fx1"], heap).VHosts = <<examplenet>>
    /\ WillRender(cmd["fx1"], heap).C2SPort = 0

----------------------------------------------------------------------------
(* C6 *)

\* The builder has applied the whole option list of f without an error.
OptionsApplied(f) == pc[f] \in {"optsdone", "ready", "started"}

\* How many times option op was applied in a log.
RECURSIVE Count(_, _)
Count(log, op) ==
    IF log = <<>> THEN 0
    ELSE (IF Head(log).op = op THEN 1 ELSE 0) + Count(Tail(log), op)

\* C6: for a fixture created through New or through Test, once all options
\* were applied, defaultConfig was applied exactly one time and it was the
\* last option applied (no caller option after it).
C6_DefaultConfigOnceAndLast ==
    \A f \in Fixtures :
        OptionsApplied(f) =>
            /\ Count(hist[f], "defaultConfig") = 1
            /\ LastOpt(f).op = "defaultConfig"

----------------------------------------------------------------------------
(* C7 *)

\* This step applied the caller's CreateUser option to f.
CreateUserStep(f) == OptStep(f) /\ StepOpt(f).op = "CreateUser"

LacksAt(addr) == \A i \in 1..Len(addr) : addr[i] # "@"

\* addr is local "@" domain with one-token parts.
WellFormed(addr) ==
    Len(addr) = 3 /\ addr[1] # "@" /\ addr[2] = "@" /\ addr[3] # "@"

\* C7: CreateUser(addr, pass) with an address that lacks the "@" fails with
\* the parse error and leaves the fixture as it was: no admin invocation
\* registered, no listener, certificate or file touched, identity unchanged.
\* With a well-formed address local@domain it registers exactly one admin
\* invocation, run as "prosodyctl --config <path> register <local> <domain>
\* <pass>", and returns nil.
C7_CreateUser ==
    [][\A f \in Fixtures :
         CreateUserStep(f) =>
            LET addr == StepOpt(f).args[1]
                pass == StepOpt(f).args[2]
            IN /\ LacksAt(addr) =>
                    /\ StepOpt(f).err = "parse"
                    /\ cmd'[f] = cmd[f]
                    /\ heap' = heap
               /\ WellFormed(addr) =>
                    /\ StepOpt(f).err = NoErr
                    /\ Len(cmd'[f].deferF) = Len(cmd[f].deferF) + 1
                    /\ SubSeq(cmd'[f].deferF, 1, Len(cmd[f].deferF)) = cmd[f].deferF
                    /\ cmd'[f].deferF[Len(cmd'[f].deferF)]
                         = <<Str("register"), <<addr[1]>>, <<addr[3]>>, pass>>
                    /\ CtlArgv(cmd'[f], cmd'[f].deferF[Len(cmd'[f].deferF)])
                         = <<Str("prosodyctl"), Str("--config"), cfgFilePathOf(f),
                             Str("register"), <<addr[1]>>, <<addr[3]>>, pass>>
      ]_vars

\* me@localhost was registered, then an address without "@" was refused.
C7_Witness ==
    /\ Len(hist["fx1"]) = 2
    /\ hist["fx1"][1].op = "CreateUser" /\ hist["fx1"][1].err = NoErr
    /\ hist["fx1"][1].args = << <<"me", "@", "localhost">>, Str("password") >>
    /\ hist["fx1"][2].op = "CreateUser" /\ hist["fx1"][2].err = "parse"
    /\ hist["fx1"][2].args[1] = <<"localhost">>
    /\ cmd["fx1"].deferF =
          << <<Str("register"), Str("me"), Str("localhost"), Str("password")>> >>
    /\ cmd["fx1"].user = [localpart |-> Str("me"), domainpart |-> Str("localhost")]
    /\ pc["fx1"] = "failed"

----------------------------------------------------------------------------
(* C8 *)

\* The successful calls of option op in the log of f.
OkCalls(f, op) ==
    { i \in 1..Len(hist[f]) : hist[f][i].op = op /\ hist[f][i].err = NoErr }

\* C8 as stated: two ListenC2S calls (two ListenS2S calls) on one fixture
\* store two distinct port numbers.
C8_PortsDistinct ==
    \A f \in Fixtures :
        /\ \A i, j \in OkCalls(f, "ListenC2S") :
              i < j => hist[f][i].view.C2SPort # hist[f][j].view.C2SPort
        /\ \A i, j \in OkCalls(f, "ListenS2S") :
              i < j => hist[f][i].view.S2SPort # hist[f][j].view.S2SPort

\* This step applied ListenC2S or ListenS2S to f.
ListenStep(f) == OptStep(f) /\ StepOpt(f).op \in {"ListenC2S", "ListenS2S"}

\* C8 (amended): every ListenC2S (ListenS2S) call that returns nil opened one
\* listener, closed it, and stored its valid port number in C2SPort (S2SPort),
\* replacing the port of an earlier call; a call that fails stores nothing;
\* ListenC2S never changes S2SPort, VHosts or Modules and ListenS2S never
\* changes C2SPort, VHosts or Modules.  Two calls may store the same number.
C8_ListenStoresClosedPort ==
    [][\A f \in Fixtures :
         ListenStep(f) =>
            LET o == StepOpt(f)
                b == View(cmd[f], heap)
                a == View(cmd'[f], heap')
                ls == cmd'[f].listeners
                c2s == o.op = "ListenC2S"
            IN /\ a.VHosts = b.VHosts
               /\ a.Modules = b.Modules
               /\ c2s => a.S2SPort = b.S2SPort
               /\ ~c2s => a.C2SPort = b.C2SPort
               /\ o.err # NoErr => a.C2SPort = b.C2SPort /\ a.S2SPort = b.S2SPort
               /\ o.err = NoErr =>
                     /\ Len(ls) = Len(cmd[f].listeners) + 1
                     /\ ls[Len(ls)].class = (IF c2s THEN "c2s" ELSE "s2s")
                     /\ ~ls[Len(ls)].open
                     /\ ls[Len(ls)].port \in Ports
                     /\ (IF c2s THEN a.C2SPort ELSE a.S2SPort) = ls[Len(ls)].port
      ]_vars

\* Two ListenC2S calls got different ports; C2SPort holds the second.
C8_Witness ==
    /\ Len(hist["fx1"]) = 3
    /\ hist["fx1"][1].op = "ListenC2S" /\ hist["fx1"][1].err = NoErr
    /\ hist["fx1"][2].op = "ListenS2S" /\ hist["fx1"][2].err = NoErr
    /\ hist["fx1"][3].op = "ListenC2S" /\ hist["fx1"][3].err = NoErr
    /\ hist["fx1"][1].view.C2SPort # hist["fx1"][3].view.C2SPort
    /\ View(cmd["fx1"], heap).C2SPort = cmd["fx1"].listeners[3].port
    /\ View(cmd["fx1"], heap).S2SPort = cmd["fx1"].listeners[2].port
    /\ \A i \in 1..3 : ~cmd["fx1"].listeners[i].open

----------------------------------------------------------------------------
(* C9 *)

trustAllFile == <<"mod_", "trustall", ".lua">>

\* This step applied TrustAll to f.
TrustAllStep(f) == OptStep(f) /\ StepOpt(f).op = "TrustAll"

\* What the trust-override file holds: the fixed script and nothing of the
\* Configuration Value.
trustAllContent ==
    [text |-> trustAllScript, C2SPort |-> 0, S2SPort |-> 0, VHosts |-> <<>>,
     Modules |-> <<>>, ConfigDir |-> EmptyStr]

\* C9: TrustAll, wherever it is applied, returns nil, appends the one module
\* "trustall" after the modules already present (none removed or merged) and
\* registers one deferred write of mod_trustall.lua; whatever else is applied
\* before or after, every write of that file has the fixed script as content.
C9_TrustAll ==
    /\ [][\A f \in Fixtures :
            TrustAllStep(f) =>
                LET n == Len(cmd[f].cfgF) IN
                /\ StepOpt(f).err = NoErr
                /\ View(cmd'[f], heap').Modules
                     = View(cmd[f], heap).Modules \o <<Str("trustall")>>
                /\ View(cmd'[f], heap').VHosts = View(cmd[f], heap).VHosts
                /\ Len(cmd'[f].cfgF) = n + 1
                /\ SubSeq(cmd'[f].cfgF, 1, n) = cmd[f].cfgF
                /\ cmd'[f].cfgF[n + 1].name = trustAllFile
         ]_vars
    /\ [](\A f \in Fixtures :
            /\ \A i \in 1..Len(cmd[f].cfgF) :
                  cmd[f].cfgF[i].name = trustAllFile =>
                      Execute(cmd[f].cfgF[i].writer, cmd[f], heap) = trustAllContent
            /\ \A i \in 1..Len(files[f]) :
                  files[f][i].name = trustAllFile =>
                      files[f][i].content = trustAllContent
            /\ Count(hist[f], "TrustAll")
                 = Cardinality({ i \in 1..Len(cmd[f].cfgF) :
                                   cmd[f].cfgF[i].name = trustAllFile }))

\* TrustAll after Modules("mam", "mam") and before a ConfigFile, all rendered.
C9_Witness ==
    /\ Len(hist["fx1"]) = 3
    /\ hist["fx1"][1].op = "Modules" /\ hist["fx1"][1].args = <<Str("mam"), Str("mam")>>
    /\ hist["fx1"][2].op = "TrustAll"
    /\ hist["fx1"][2].view.Modules = <<Str("mam"), Str("mam"), Str("trustall")>>
    /\ hist["fx1"][3].op = "ConfigFile" /\ hist["fx1"][3].cfg # ZeroConfig
    /\ pc["fx1"] = "ready"
    /\ files["fx1"][1] = [name |-> trustAllFile, content |-> trustAllContent]

----------------------------------------------------------------------------
(* C10 *)

\* The Configuration Value b grew into a: both lists extend the old ones and
\* a port that was set is still set.
Monotone(b, a) ==
    /\ IsPrefix(b.VHosts, a.VHosts)
    /\ IsPrefix(b.Modules, a.Modules)
    /\ b.C2SPort # 0 => a.C2SPort # 0
    /\ b.S2SPort # 0 => a.S2SPort # 0

\* C10 as stated: every option of the package, ConfigFile included, leaves the
\* old VHosts and Modules lists as prefixes of the new ones and set ports set.
C10_AllOptionsMonotone ==
    [][\A f \in Fixtures :
         OptStep(f) => Monotone(View(cmd[f], heap), View(cmd'[f], heap'))
      ]_vars

\* C10 (amended): every option other than the caller's ConfigFile (VHost,
\* Modules, ListenC2S, ListenS2S, TrustAll, CreateUser, Ctl, defaultConfig)
\* leaves the old VHosts and Modules lists as prefixes of the new ones and a
\* set port set; ConfigFile(cfg) replaces the Configuration Value by cfg.
C10_MonotoneExceptConfigFile ==
    [][\A f \in Fixtures :
         OptStep(f) =>
            IF StepOpt(f).op = "ConfigFile"
            THEN View(cmd'[f], heap')
                   = [isNil |-> FALSE,
                      C2SPort |-> StepOpt(f).cfg.C2SPort,
                      S2SPort |-> StepOpt(f).cfg.S2SPort,
                      VHosts |-> Elems(heap, StepOpt(f).cfg.VHosts),
                      Modules |-> Elems(heap, StepOpt(f).cfg.Modules)]
            ELSE Monotone(View(cmd[f], heap), View(cmd'[f], heap'))
      ]_vars

\* Lists and ports grown over three options and defaultConfig.
C10_Witness ==
    /\ Len(hist["fx1"]) = 4
    /\ hist["fx1"][1].op = "ListenS2S" /\ hist["fx1"][1].err = NoErr
    /\ hist["fx1"][2].op = "VHost" /\ hist["fx1"][2].args = <<examplenet>>
    /\ hist["fx1"][3].op = "TrustAll"
    /\ hist["fx1"][4].op = "defaultConfig" /\ hist["fx1"][4].err = NoErr
    /\ View(cmd["fx1"], heap).VHosts = <<examplenet>>
    /\ View(cmd["fx1"], heap).Modules = <<Str("trustall")>>
    /\ View(cmd["fx1"], heap).S2SPort = hist["fx1"][1].view.S2SPort
    /\ View(cmd["fx1"], heap).S2SPort \in Ports


----------------------------------------------------------------------------
(* C11 *)

\* The arguments of the admin invocations the caller's Ctl and CreateUser
\* options of a log ask for, in call order.
RECURSIVE CallerCtlArgs(_)
CallerCtlArgs(log) ==
    IF log = <<>> THEN <<>>
    ELSE LET o == Head(log) IN
         (IF o.op = "Ctl" THEN <<o.args>>
          ELSE IF o.op = "CreateUser" /\ o.err = NoErr
          THEN << <<Str("register"), <<o.args[1][1]>>, <<o.args[1][3]>>, o.args[2]>> >>
          ELSE <<>>)
         \o CallerCtlArgs(Tail(log))

\* The admin invocations expected of fixture f: those of the caller's options
\* and, after them, at most one registration made by defaultConfig.
ExpectedCtlArgs(f) ==
    LET caller == CallerCtlArgs(hist[f])
        d == cmd[f].deferF
    IN IF Len(d) = Len(caller) + 1 /\ d[Len(d)][1] = Str("register")
          /\ HasOp(f, "defaultConfig")
       THEN Append(caller, d[Len(d)])
       ELSE caller

\* C11: every run of the admin tool has the argument vector
\* prosodyctl --config <path> <args...>: flag and path first, then the
\* arguments of the Ctl or CreateUser call in their order, with <path> the
\* config directory joined with prosody.cfg.lua, which is also the argument
\* that follows every config flag on the daemon's command line.
C11_CtlArgv ==
    \A f \in Fixtures :
        /\ Len(ctlRuns[f]) <= Len(ExpectedCtlArgs(f))
        /\ \A i \in 1..Len(ctlRuns[f]) :
              ctlRuns[f][i].argv
                = <<Str("prosodyctl"), Str("--config"),
                    cmd[f].cfgDir \o <<"/">> \o Str("prosody.cfg.lua")>>
                  \o ExpectedCtlArgs(f)[i]
        /\ \A k \in 1..Len(cmd[f].Args) :
              cmd[f].Args[k] = Str("--config") =>
                  /\ k < Len(cmd[f].Args)
                  /\ cmd[f].Args[k + 1]
                       = cmd[f].cfgDir \o <<"/">> \o Str("prosody.cfg.lua")

\* A Ctl and a CreateUser invocation were run after an explicit config file.
C11_Witness ==
    /\ Len(hist["fx1"]) = 3
    /\ hist["fx1"][1].op = "Ctl"
    /\ hist["fx1"][2].op = "ConfigFile"
    /\ hist["fx1"][3].op = "CreateUser" /\ hist["fx1"][3].err = NoErr
    /\ pc["fx1"] = "started"
    /\ Len(ctlRuns["fx1"]) = 2
    /\ ctlRuns["fx1"][1].argv[4] = Str("status")
    /\ ctlRuns["fx1"][2].argv[4] = Str("register")


----------------------------------------------------------------------------
(* C12 *)

\* The admin tool has registered user j with password p for fixture f: a
\* "register" run for them ended successfully.
RegisteredOk(f, j, p) ==
    \E i \in 1..Len(ctlRuns[f]) :
        /\ ctlRuns[f][i].ok
        /\ SubSeq(ctlRuns[f][i].argv, 4, Len(ctlRuns[f][i].argv))
             = <<Str("register"), j.localpart, j.domainpart, p>>

\* C12: the fixture's identity is set by CreateUser only once the admin
\* tool's "register" run for it has succeeded: while that run has failed or
\* has not completed, the identity is not set.
C12_IdentityOnlyAfterRegistration ==
    \A f \in Fixtures :
        cmd[f].user # ZeroJID => RegisteredOk(f, cmd[f].user, cmd[f].pass)


----------------------------------------------------------------------------
(* C13 *)

\* defaultConfig succeeded on f after caller options that set neither an
\* identity nor the config flag.
DefaultIdentityMade(f) ==
    /\ hist[f] # <<>>
    /\ LastOpt(f).op = "defaultConfig"
    /\ LastOpt(f).err = NoErr
    /\ ~HasOp(f, "ConfigFile")
    /\ ~HasOp(f, "CreateUser")

\* C13 as stated: whatever vhosts the caller supplied, the identity that
\* defaultConfig creates is me@localhost with password "password".
C13_DefaultIdentityAtLocalhost ==
    \A f \in Fixtures :
        DefaultIdentityMade(f) =>
            /\ cmd[f].user = [localpart |-> Str("me"), domainpart |-> Str("localhost")]
            /\ cmd[f].pass = Str("password")

\* C13 (amended): when defaultConfig finds no recorded identity and succeeds,
\* the identity it creates is "me" at the first vhost of the Configuration
\* Value, with password "password": me@localhost when the caller supplied no
\* vhost, me@<the caller's first vhost> otherwise; and the admin invocation
\* registered last is the registration of that user.
C13_DefaultIdentityAtFirstVHost ==
    \A f \in Fixtures :
        DefaultIdentityMade(f) =>
            LET supplied == ConcatArgs(hist[f], "VHost")
                host == IF supplied = <<>> THEN Str("localhost") ELSE supplied[1]
            IN /\ cmd[f].user = [localpart |-> Str("me"), domainpart |-> host]
               /\ cmd[f].pass = Str("password")
               /\ cmd[f].deferF # <<>>
               /\ cmd[f].deferF[Len(cmd[f].deferF)]
                    = <<Str("register"), Str("me"), host, Str("password")>>

\* The caller supplied example.net and localhost: the user is me@example.net.
C13_Witness ==
    /\ DefaultIdentityMade("fx1")
    /\ Len(hist["fx1"]) = 3
    /\ hist["fx1"][1].op = "VHost" /\ hist["fx1"][1].args = <<>>
    /\ hist["fx1"][2].op = "VHost" /\ hist["fx1"][2].args = <<examplenet, localhost>>
    /\ cmd["fx1"].user = [localpart |-> Str("me"), domainpart |-> Str("example.net")]


----------------------------------------------------------------------------
(* C14 *)

\* The writes of the config file among the writes ws.
CfgWrites(ws) == { i \in 1..Len(ws) : ws[i].name = cfgFileName }

\* C14 as stated: no rendering of the config file, whether registered by the
\* caller's ConfigFile or by defaultConfig, has an empty VHosts list.
C14_RenderedVHostsNonEmpty ==
    \A f \in Fixtures :
        \A i \in CfgWrites(files[f]) : files[f][i].content.VHosts # <<>>

\* C14 (amended): a rendering of the config file that defaultConfig
\* registered (the caller applied no ConfigFile) has a non-empty VHosts list;
\* a rendering the caller's ConfigFile(cfg) registered has the VHosts of cfg,
\* empty if cfg has none.
C14_DefaultRenderingHasVHost ==
    \A f \in Fixtures :
        /\ ~HasOp(f, "ConfigFile") =>
              /\ \A i \in CfgWrites(cmd[f].cfgF) :
                    Execute(cmd[f].cfgF[i].writer, cmd[f], heap).VHosts # <<>>
              /\ \A i \in CfgWrites(files[f]) : files[f][i].content.VHosts # <<>>
        /\ HasOp(f, "ConfigFile") =>
              \A i \in CfgWrites(files[f]) :
                  \E k \in 1..Len(hist[f]) :
                      /\ hist[f][k].op = "ConfigFile"
                      /\ files[f][i].content.VHosts = hist[f][k].view.VHosts

\* The rendering defaultConfig registered was written, with the default vhost.
C14_Witness ==
    /\ Len(hist["fx1"]) = 2
    /\ hist["fx1"][1].op = "Modules"
    /\ hist["fx1"][2].op = "defaultConfig" /\ hist["fx1"][2].err = NoErr
    /\ pc["fx1"] = "ready"
    /\ CfgWrites(files["fx1"]) = {1}
    /\ files["fx1"][1].content.VHosts = <<localhost>>


----------------------------------------------------------------------------
(* C15 *)

\* How many arguments of a command line are the config flag.
FlagCount(args) == Cardinality({ k \in 1..Len(args) : args[k] = Str("--config") })

\* The caller set the config file; defaultConfig found the flag.
Explicit(f) ==
    /\ HasOp(f, "ConfigFile")
    /\ FlagCount(cmd[f].Args) = Count(hist[f], "ConfigFile")
    /\ Cardinality(CfgWrites(cmd[f].cfgF)) = Count(hist[f], "ConfigFile")

\* defaultConfig filled in the defaults, registered the rendering and
\* appended the flag, once, with the path of the config file.
Generated(f) ==
    /\ ~HasOp(f, "ConfigFile")
    /\ cmd[f].Args = <<Str("prosody"), Str("--config"),
                       cmd[f].cfgDir \o <<"/">> \o Str("prosody.cfg.lua")>>
    /\ Cardinality(CfgWrites(cmd[f].cfgF)) = 1
    /\ View(cmd[f], heap).VHosts # <<>>
    /\ cmd[f].user # ZeroJID

\* C15: when the options of a fixture created through Test were all applied
\* without error, the config flag is on the command line and the fixture is
\* in exactly one of two states: explicit (the caller's ConfigFile set the
\* flag) or generated (defaultConfig set it, exactly once); defaultConfig
\* never returns nil with no config flag on the command line.
C15_ExplicitOrGenerated ==
    \A f \in Fixtures :
        (via[f] = "Test" /\ OptionsApplied(f)) =>
            /\ LastOpt(f).op = "defaultConfig"
            /\ FlagCount(cmd[f].Args) >= 1
            /\ Explicit(f) \/ Generated(f)
            /\ ~(Explicit(f) /\ Generated(f))

\* A generated fixture was started.
C15_Witness ==
    /\ via["fx1"] = "Test"
    /\ pc["fx1"] = "started"
    /\ Generated("fx1")
    /\ Len(hist["fx1"]) = 4
    /\ hist["fx1"][1].op = "VHost"
    /\ hist["fx1"][2].op = "TrustAll"
    /\ hist["fx1"][3].op = "ListenC2S"


----------------------------------------------------------------------------
(* C16 *)

\* This step applied an option to f that returned an error.
FailedStep(f) == OptStep(f) /\ StepOpt(f).err # NoErr

\* C16: an option that fails returns its error, the builder stops applying
\* options, and nothing already done is rolled back.  A Listen option whose
\* bind or close fails opened at most one listener (no retry) and wrote no
\* port field.  When the certificate request of defaultConfig fails, no user
\* is created, no rendering registered and no flag appended.  When its
\* CreateUser fails, no rendering is registered and no flag appended, and the
\* VHosts list stored before CreateUser (with the default vhost, had it been
\* added) stays stored.
C16_FailureAborts ==
    [][\A f \in Fixtures :
         /\ pc[f] = "failed" => (cmd'[f] = cmd[f] /\ hist'[f] = hist[f])
         /\ FailedStep(f) =>
              LET o == StepOpt(f)
                  b == View(cmd[f], heap)
                  a == View(cmd'[f], heap')
              IN /\ pc'[f] = "failed"
                 /\ IsPrefix(cmd[f].cfgF, cmd'[f].cfgF)
                 /\ IsPrefix(cmd[f].deferF, cmd'[f].deferF)
                 /\ IsPrefix(cmd[f].Args, cmd'[f].Args)
                 /\ Monotone(b, a)
                 /\ o.op \in {"ListenC2S", "ListenS2S"} =>
                       /\ o.err \in {"bind", "close"}
                       /\ a.C2SPort = b.C2SPort
                       /\ a.S2SPort = b.S2SPort
                       /\ o.err = "bind" => cmd'[f].listeners = cmd[f].listeners
                       /\ o.err = "close" =>
                             /\ Len(cmd'[f].listeners) = Len(cmd[f].listeners) + 1
                             /\ cmd'[f].listeners[Len(cmd'[f].listeners)].open
                 /\ o.op = "defaultConfig" =>
                       /\ o.err \in {"cert", "parse"}
                       /\ cmd'[f].cfgF = cmd[f].cfgF
                       /\ cmd'[f].Args = cmd[f].Args
                       /\ cmd'[f].deferF = cmd[f].deferF
                       /\ cmd'[f].user = cmd[f].user
                       /\ o.err = "cert" =>
                             /\ b.VHosts = <<>>
                             /\ cmd'[f].certs = Append(cmd[f].certs, Str("localhost"))
                       /\ o.err = "parse" =>
                             a.VHosts = (IF b.VHosts = <<>> THEN <<Str("localhost")>>
                                         ELSE b.VHosts)
      ]_vars

\* defaultConfig failed in CreateUser ("me@" with the empty vhost the caller
\* set) after a port had been stored: the port and the vhost are still there.
C16_Witness ==
    /\ Len(hist["fx1"]) = 3
    /\ hist["fx1"][1].op = "ListenS2S" /\ hist["fx1"][1].err = NoErr
    /\ hist["fx1"][2].op = "VHost" /\ hist["fx1"][2].args = <<EmptyStr>>
    /\ hist["fx1"][3].op = "defaultConfig" /\ hist["fx1"][3].err = "parse"
    /\ pc["fx1"] = "failed"
    /\ View(cmd["fx1"], heap).VHosts = <<EmptyStr>>
    /\ View(cmd["fx1"], heap).S2SPort \in Ports
    /\ cmd["fx1"].cfgF = <<>>
    /\ ~HasConfigFlag(cmd["fx1"].Args)


----------------------------------------------------------------------------
(* C17 *)

\* C17: defaultConfig requests a certificate exactly when it adds the default
\* vhost.  With a config flag or a caller-supplied vhost it requests none;
\* with an empty vhost list it requests exactly one, for "localhost", and a
\* failing request leaves no user created and no rendering registered (the
\* request comes first).  No other option requests a certificate.
C17_CertIffDefaultVHost ==
    [][\A f \in Fixtures :
         /\ cmd'[f].certs # cmd[f].certs =>
               OptStep(f) /\ StepOpt(f).op = "defaultConfig"
         /\ (OptStep(f) /\ StepOpt(f).op = "defaultConfig") =>
              LET b == View(cmd[f], heap)
                  a == View(cmd'[f], heap')
                  addsVHost == ~HasConfigFlag(cmd[f].Args) /\ b.VHosts = <<>>
              IN /\ ~addsVHost => cmd'[f].certs = cmd[f].certs
                 /\ addsVHost =>
                       /\ cmd'[f].certs = Append(cmd[f].certs, Str("localhost"))
                       /\ StepOpt(f).err = NoErr => a.VHosts = <<Str("localhost")>>
                       /\ StepOpt(f).err = "cert" =>
                             /\ cmd'[f].user = cmd[f].user
                             /\ cmd'[f].deferF = cmd[f].deferF
                             /\ cmd'[f].cfgF = cmd[f].cfgF
                             /\ cmd'[f].Args = cmd[f].Args
      ]_vars

\* The one certificate for "localhost" was requested and the request failed:
\* defaultConfig stopped before the user and the rendering.
C17_Witness ==
    /\ hist["fx1"] # <<>>
    /\ LastOpt("fx1").op = "defaultConfig"
    /\ LastOpt("fx1").err = "cert"
    /\ cmd["fx1"].certs = <<Str("localhost")>>
    /\ cmd["fx1"].user = ZeroJID
    /\ cmd["fx1"].cfgF = <<>>
    /\ cmd["fx1"].deferF = <<>>


----------------------------------------------------------------------------
(* C18 *)

\* The Listen calls of a log, in call order.
ListenOps(log) == SelectSeq(log, LAMBDA o : o.op \in {"ListenC2S", "ListenS2S"})

\* The daemon of f can be started, or was.
DaemonStartable(f) == pc[f] \in {"ready", "started"} \/ ctlRuns[f] # <<>>

\* C18: when the daemon is started (and already when it is about to be), the
\* fixture has one listener per Listen call of its option list, of the class
\* of that call and on the port the call stored, and every one of them is
\* closed.
C18_PortsReleasedBeforeStart ==
    \A f \in Fixtures :
      DaemonStartable(f) =>
        LET ops == ListenOps(hist[f]) IN
        /\ Len(cmd[f].listeners) = Len(ops)
        /\ \A k \in 1..Len(ops) :
             LET l == cmd[f].listeners[k] IN
             /\ ~l.open
             /\ ops[k].err = NoErr
             /\ l.class = (IF ops[k].op = "ListenC2S" THEN "c2s" ELSE "s2s")
             /\ l.port = (IF ops[k].op = "ListenC2S" THEN ops[k].view.C2SPort
                                                     ELSE ops[k].view.S2SPort)

\* The daemon runs after a ListenC2S and a ListenS2S call stored their ports.
C18_Witness ==
    /\ pc["fx1"] = "started"
    /\ Len(cmd["fx1"].listeners) = 2
    /\ HasOp("fx1", "ListenC2S")
    /\ HasOp("fx1", "ListenS2S")
    /\ View(cmd["fx1"], heap).C2SPort \in Ports
    /\ View(cmd["fx1"], heap).S2SPort \in Ports


----------------------------------------------------------------------------
(* C19: two fixtures built by one caller from the same option values *)

\* Options each of the two fixtures is given at most.
MaxSharedOpts == 2

\* One caller builds both fixtures through New, with ConfigFile, VHost and
\* Modules options, in any interleaving of the two builders' steps.
SharedOpts(f) == Len(hist[f]) < MaxSharedOpts

NextShared ==
    \E f \in Fixtures :
      \/ New(f)
      \/ SharedOpts(f) /\ ApplyConfigFile(f)
      \/ SharedOpts(f) /\ ApplyVHost(f)
      \/ SharedOpts(f) /\ ApplyModules(f)
      \/ EndOpts(f)

SpecShared == Init /\ [][NextShared]_vars

\* The vhost and module lists of a Config a caller built, as the caller sees
\* them through its own slice headers.
CallerView(cfg, h) ==
    [VHosts |-> Elems(h, cfg.VHosts), Modules |-> Elems(h, cfg.Modules)]

\* C19: an option applied to one fixture changes neither the vhost and module
\* lists of the other fixture's Configuration Value nor the lists of a Config
\* the caller passed to ConfigFile.
C19_NoSharedConfig ==
    [][\A f, g \in Fixtures :
         (f # g /\ OptStep(g)) =>
            /\ View(cmd'[f], heap').VHosts = View(cmd[f], heap).VHosts
            /\ View(cmd'[f], heap').Modules = View(cmd[f], heap).Modules
            /\ \A cfg \in CallerConfigs : CallerView(cfg, heap') = CallerView(cfg, heap)
      ]_vars


----------------------------------------------------------------------------
(* C20 *)

\* C20: every run of the admin tool is given the path of the fixture's config
\* file, and a rendering of that file was registered for the fixture and
\* performed before the run.
C20_AdminToolAfterRendering ==
    \A f \in Fixtures :
      \A i \in 1..Len(ctlRuns[f]) :
        /\ ctlRuns[f][i].argv[3] = Join(ConfigDir(cmd[f]), cfgFileName)
        /\ CfgWrites(cmd[f].cfgF) # {}
        /\ CfgWrites(files[f]) # {}

====
